---------------------------- MODULE Spec2Model ----------------------------
(***************************************************************************)
(* A model of the two simulation scripts of the repository:               *)
(*                                                                         *)
(*   src/.pysd-test-workflow/shared_model.py  ParallelSimulationModel.run  *)
(*                                            and run_scenario             *)
(*   src/examples/pysd/sir_model.py           SIRModel.set_components and  *)
(*                                            SIRModel.run, on the module  *)
(*                                            level instance `model`       *)
(*                                                                         *)
(* Python floats are modelled by exact rationals [n |-> num, d |-> den]    *)
(* in lowest terms with d > 0.  A rational whose numerator or denominator  *)
(* leaves the range of MaxMagnitude is NaR (d = 0); a call whose result    *)
(* holds a NaR is outside the explored inputs (the actions' guards).       *)
(* Rounding of IEEE doubles is therefore not modelled: equalities below    *)
(* are equalities of exact arithmetic.                                     *)
(***************************************************************************)
EXTENDS Integers, Sequences, FiniteSets, TLC

\* ------------------------------------------------------------------ bounds
\* Longest time grid a modelled call may build.
MaxPoints == 3
\* final_time ranges over -2..MaxFinal.
MaxFinal == 3
\* Timestamps of an explicit return_timestamps grid range over 0..MaxStamp.
MaxStamp == 2
\* run_scenario is called with 1..MaxIterations iterations.
MaxIterations == 2
\* Horizon run_scenario passes as final_time (the code passes 1000, line 65 and
\* 67 of shared_model.py; the model scales the horizon down).
ScenarioFinalTime == 2
\* Largest numerator or denominator of a modelled number.
MaxMagnitude == 1000000000

\* --------------------------------------------------------- exact rationals
Abs(x) == IF x < 0 THEN -x ELSE x

RECURSIVE GCD(_, _)
GCD(a, b) == IF b = 0 THEN a ELSE GCD(b, a % b)

NaR == [n |-> 0, d |-> 0]

IsNum(x) == x.d # 0

\* |a * b| <= MaxMagnitude, decided without forming the product.
Fits(a, b) == a = 0 \/ b = 0 \/ Abs(a) <= MaxMagnitude \div Abs(b)

\* n / d for d > 0, in lowest terms.
Norm(n, d) ==
    IF Abs(n) > MaxMagnitude \/ d > MaxMagnitude THEN NaR
    ELSE LET g == GCD(Abs(n), d) IN [n |-> n \div g, d |-> d \div g]

FromInt(k) == [n |-> k, d |-> 1]

Frac(a, b) == Norm(a, b)

Zero == FromInt(0)

One == FromInt(1)

Neg(x) == [n |-> -x.n, d |-> x.d]

Mul(x, y) ==
    IF ~IsNum(x) \/ ~IsNum(y) THEN NaR
    ELSE LET g1 == GCD(Abs(x.n), y.d)
             g2 == GCD(Abs(y.n), x.d)
             a == x.n \div g1
             b == y.n \div g2
             c == x.d \div g2
             e == y.d \div g1
         IN IF Fits(a, b) /\ Fits(c, e) THEN [n |-> a * b, d |-> c * e] ELSE NaR

Add(x, y) ==
    IF ~IsNum(x) \/ ~IsNum(y) THEN NaR
    ELSE LET g == GCD(x.d, y.d)
             yd == y.d \div g
             xd == x.d \div g
         IN IF Fits(x.n, yd) /\ Fits(y.n, xd) /\ Fits(x.d, yd)
            THEN Norm(x.n * yd + y.n * xd, x.d * yd)
            ELSE NaR

Sub(x, y) == Add(x, Neg(y))

\* x / y for y # 0 (the callers decide what a zero divisor does).
Div(x, y) ==
    IF ~IsNum(x) \/ ~IsNum(y) \/ y.n = 0 THEN NaR
    ELSE Mul(x, IF y.n > 0 THEN [n |-> y.d, d |-> y.n]
                ELSE [n |-> -y.d, d |-> -y.n])

\* a/b <= c/e for b, e > 0, by the continued-fraction expansion (no product
\* is formed, so no operand is too large).
RECURSIVE LeqFrac(_, _, _, _)
LeqFrac(a, b, c, e) ==
    LET q1 == a \div b
        q2 == c \div e
        r1 == a % b
        r2 == c % e
    IN IF q1 # q2 THEN q1 < q2
       ELSE IF r1 = 0 THEN TRUE
       ELSE IF r2 = 0 THEN FALSE
       ELSE LeqFrac(e, r2, b, r1)

Leq(x, y) == LeqFrac(x.n, x.d, y.n, y.d)

Less(x, y) == Leq(x, y) /\ x # y

Floor(x) == x.n \div x.d

Ceil(x) == -((-x.n) \div x.d)

\* Python's max(0, v) on numbers.
Max0(v) == IF ~IsNum(v) THEN NaR ELSE IF v.n < 0 THEN Zero ELSE v

\* dict.get(key, default)
Get(values, key, default) == IF key \in DOMAIN values THEN values[key] ELSE default

\* ------------------------------------------------------------- numpy.arange
\* len(np.arange(start, stop, step)) for step # 0: ceil((stop - start)/step),
\* and no element when that is not positive.
ArangeLen(start, stop, step) ==
    LET k == Ceil(Div(Sub(stop, start), step)) IN IF k < 0 THEN 0 ELSE k

\* np.arange(start, stop, step): start + i*step for i = 0 .. len-1.
arange(start, stop, step) ==
    [i \in 1..ArangeLen(start, stop, step) |-> Add(start, Mul(FromInt(i - 1), step))]

\* ------------------------------------------ shared_model.py: the logistic run
\* The defaults of ParallelSimulationModel.run.
DefaultPopulation == FromInt(1000)

DefaultGrowthRate == Frac(2, 100)

DefaultCarryingCapacity == FromInt(10000)

\* self.components._namespace as __init__ builds it.
InitNamespace ==
    [population |-> FromInt(1000), growth_rate |-> Frac(2, 100),
     carrying_capacity |-> FromInt(10000)]

\* Variant of LogisticGrowth with the sign of the capacity term reversed:
\* r * pop * (pop / K - 1).
LogisticGrowthInverted(r, pop, K) == Mul(Mul(r, pop), Sub(Div(pop, K), One))

\* growth = r * pop * (1 - pop / K), line 39.
LogisticGrowth(r, pop, K) == Mul(Mul(r, pop), Sub(One, Div(pop, K)))

\* Variant of LogisticTimes without the end-aligned point:
\* np.arange(start_time, final_time, time_step).
LogisticTimesExclusive(start_time, final_time, time_step) ==
    arange(start_time, final_time, time_step)

\* times = np.arange(start_time, final_time + time_step, time_step), line 33.
LogisticTimes(start_time, final_time, time_step) ==
    arange(start_time, Add(final_time, time_step), time_step)

\* Variant of LogisticLoop that reports with each record the growth rate of
\* the state after the update, not of the record's own state.
RECURSIVE LogisticLoopGrowthAfterUpdate(_, _, _, _, _, _)
LogisticLoopGrowthAfterUpdate(times, i, pop, r, K, time_step) ==
    IF i > Len(times) THEN <<>>
    ELSE LET next == Add(pop, Mul(LogisticGrowth(r, pop, K), time_step))
         IN <<[Time |-> times[i], Population |-> pop,
               GrowthRate |-> LogisticGrowth(r, next, K), CarryingCapacity |-> K]>>
            \o LogisticLoopGrowthAfterUpdate(times, i + 1, next, r, K, time_step)

\* The loop `for t in times` of run, from index i on, with pop the local
\* variable at the head of iteration i.
RECURSIVE LogisticLoop(_, _, _, _, _, _)
LogisticLoop(times, i, pop, r, K, time_step) ==
    IF i > Len(times) THEN <<>>
    ELSE LET growth == LogisticGrowth(r, pop, K)
         IN <<[Time |-> times[i], Population |-> pop, GrowthRate |-> growth,
               CarryingCapacity |-> K]>>
            \o LogisticLoop(times, i + 1, Add(pop, Mul(growth, time_step)), r, K,
                            time_step)

\* start_time as run unpacks it: the tuple's first component, else 0.
StartTimeOf(initial_condition) ==
    IF initial_condition.kind = "tuple" THEN initial_condition.start ELSE Zero

\* initial_values as run unpacks it: the tuple's second component, else {}.
\* An initial_condition that is not a tuple (None, or e.g. a list) is ignored.
InitialValuesOf(initial_condition) ==
    IF initial_condition.kind = "tuple" THEN initial_condition.values ELSE <<>>

\* ParallelSimulationModel.run.  The result is [err, traj, clamped]: err is
\* "none" when a DataFrame is returned (traj its rows in index order) and the
\* exception raised otherwise.  np.arange raises on a zero step and
\* `pop / K` raises ZeroDivisionError in the first iteration when K = 0.
ParallelSimulationModel_run(initial_condition, final_time, time_step) ==
    LET start_time == StartTimeOf(initial_condition)
        initial_values == InitialValuesOf(initial_condition)
        pop == Get(initial_values, "population", DefaultPopulation)
        r == Get(initial_values, "growth_rate", DefaultGrowthRate)
        K == Get(initial_values, "carrying_capacity", DefaultCarryingCapacity)
    IN IF time_step.n = 0
       THEN [err |-> "ArangeError", traj |-> <<>>, clamped |-> FALSE]
       ELSE LET times == LogisticTimes(start_time, final_time, time_step)
            IN IF Len(times) > 0 /\ K.n = 0
               THEN [err |-> "ZeroDivisionError", traj |-> <<>>, clamped |-> FALSE]
               ELSE [err |-> "none",
                     traj |-> LogisticLoop(times, 1, pop, r, K, time_step),
                     clamped |-> FALSE]

\* Every number of a result is within the modelled range.
Representable(res) ==
    \A i \in 1..Len(res.traj) :
        \A f \in DOMAIN res.traj[i] : IsNum(res.traj[i][f])

\* ---------------------------------------------- shared_model.py: run_scenario
\* time_step when run is called without one (line 22).
DefaultTimeStep == FromInt(1)

\* Variant of ScenarioInitialCondition that passes the loop index as the
\* start time: (i, params).
ScenarioInitialConditionFromIndex(params, i) ==
    [kind |-> "tuple", start |-> FromInt(i), values |-> params]

\* The call run_scenario makes in iteration i (0-based), lines 64 to 67:
\* (0, params) as initial_condition when params is not empty, no
\* initial_condition otherwise.
ScenarioInitialCondition(params, i) ==
    IF DOMAIN params # {}
    THEN [kind |-> "tuple", start |-> Zero, values |-> params]
    ELSE [kind |-> "none", start |-> Zero, values |-> <<>>]

RECURSIVE MaxOf(_, _)
MaxOf(seq, i) ==
    IF i = Len(seq) THEN seq[i]
    ELSE LET m == MaxOf(seq, i + 1) IN IF Leq(m, seq[i]) THEN seq[i] ELSE m

\* The record run_scenario appends for a returned DataFrame (execution_ms, a
\* wall-clock reading, is left out).
ScenarioRecord(i, res) ==
    [iteration |-> i + 1,
     final_population |-> res.traj[Len(res.traj)].Population,
     max_growth |-> MaxOf([j \in 1..Len(res.traj) |-> res.traj[j].GrowthRate], 1),
     data_points |-> Len(res.traj)]

RECURSIVE SumFinal(_, _)
SumFinal(results, i) ==
    IF i > Len(results) THEN Zero
    ELSE Add(results[i].final_population, SumFinal(results, i + 1))

\* The summary run_scenario returns (the timing entries left out).
ScenarioSummary(params, iterations, results) ==
    [parameters |-> params, iterations |-> iterations,
     avg_final_population |-> Div(SumFinal(results, 1), FromInt(Len(results))),
     results |-> results]

\* ------------------------------------------------- sir_model.py: the SIR model
\* self.params as __init__ builds it.
SIRDefaults ==
    [contact_rate |-> FromInt(10), infectivity |-> Frac(15, 1000),
     recovery_time |-> FromInt(5), total_population |-> FromInt(1000)]

\* Variant of set_components that merges the overrides onto the built-in
\* defaults, forgetting what earlier calls had set.
set_components_on_defaults(self_params, params) ==
    [k \in DOMAIN self_params \cup DOMAIN params |->
        IF k \in DOMAIN params THEN params[k] ELSE SIRDefaults[k]]

\* self.params.update(params)
set_components(self_params, params) ==
    [k \in DOMAIN self_params \cup DOMAIN params |->
        IF k \in DOMAIN params THEN params[k] ELSE self_params[k]]

\* Variant of SIRRaw whose Infected update leaves out the recovery outflow.
SIRRawNoOutflow(p, st, dt) ==
    LET infection_rate ==
            Div(Mul(Mul(Mul(p.contact_rate, p.infectivity), st.S), st.I),
                p.total_population)
        recovery_rate == Div(st.I, p.recovery_time)
    IN [S |-> Sub(st.S, Mul(infection_rate, dt)),
        I |-> Add(st.I, Mul(infection_rate, dt)),
        R |-> Add(st.R, Mul(recovery_rate, dt))]

\* One pass of the loop body of SIRModel.run from the state st = (S[i-1],
\* I[i-1], R[i-1]): the three unclamped sums.
SIRRaw(p, st, dt) ==
    LET infection_rate ==
            Div(Mul(Mul(Mul(p.contact_rate, p.infectivity), st.S), st.I),
                p.total_population)
        recovery_rate == Div(st.I, p.recovery_time)
    IN [S |-> Sub(st.S, Mul(infection_rate, dt)),
        I |-> Add(st.I, Mul(Sub(infection_rate, recovery_rate), dt)),
        R |-> Add(st.R, Mul(recovery_rate, dt))]

\* The update of lines 66 to 68: each sum clamped by max(0, .).
SIRStep(p, st, dt) ==
    LET raw == SIRRaw(p, st, dt)
    IN [S |-> Max0(raw.S), I |-> Max0(raw.I), R |-> Max0(raw.R)]

\* The initial conditions of lines 50 to 52.
SIRInitial(p) == [S |-> Sub(p.total_population, One), I |-> One, R |-> Zero]

\* S, I, R after the loop has filled indices 0 .. n-1.
RECURSIVE SIRStates(_, _, _)
SIRStates(p, n, dt) ==
    IF n = 1 THEN <<SIRInitial(p)>>
    ELSE LET prev == SIRStates(p, n - 1, dt)
         IN Append(prev, SIRStep(p, prev[n - 1], dt))

\* Whether some max(0, .) of the loop changed the value it was given.
SIRClamped(p, states, dt) ==
    \E i \in 2..Len(states) :
        LET raw == SIRRaw(p, states[i - 1], dt)
        IN raw.S.n < 0 \/ raw.I.n < 0 \/ raw.R.n < 0

\* The grid of SIRModel.run: the supplied timestamps as they are, else arange.
SIRTimes(return_timestamps, initial_time, final_time, dt) ==
    IF return_timestamps.given THEN return_timestamps.times
    ELSE arange(initial_time, Add(final_time, dt), dt)

\* SIRModel.run on an instance whose self.params is p.  np.arange raises on a
\* zero step; an empty grid makes `S[0] = ...` raise IndexError.
SIRModel_run(p, return_timestamps, initial_time, final_time, dt) ==
    IF ~return_timestamps.given /\ dt.n = 0
    THEN [err |-> "ArangeError", traj |-> <<>>, clamped |-> FALSE]
    ELSE LET times == SIRTimes(return_timestamps, initial_time, final_time, dt)
         IN IF Len(times) = 0
            THEN [err |-> "IndexError", traj |-> <<>>, clamped |-> FALSE]
            ELSE LET states == SIRStates(p, Len(times), dt)
                 IN [err |-> "none",
                     traj |-> [i \in 1..Len(times) |->
                                  [Time |-> times[i], Susceptible |-> states[i].S,
                                   Infected |-> states[i].I,
                                   Recovered |-> states[i].R]],
                     clamped |-> SIRClamped(p, states, dt)]

\* ------------------------------------------------------------------ inputs
Populations == {FromInt(-1), FromInt(0), FromInt(1), FromInt(3)}

GrowthRates == {FromInt(1), FromInt(-1), Frac(1, 2)}

Capacities == {FromInt(2), FromInt(1), FromInt(-1), FromInt(0)}

LogisticValues(k) ==
    IF k = "population" THEN Populations
    ELSE IF k = "growth_rate" THEN GrowthRates
    ELSE Capacities

LogisticKeys == {"population", "growth_rate", "carrying_capacity"}

\* The partial mappings a caller passes as initial values.
LogisticOverrides ==
    UNION {{f \in [D -> Populations \cup GrowthRates \cup Capacities] :
                \A k \in D : f[k] \in LogisticValues(k)} : D \in SUBSET LogisticKeys}

StartTimes == {FromInt(0), FromInt(1)}

\* initial_condition: None, a (start_time, values) tuple, or the same pair
\* passed as a list.
InitialConditions ==
    {[kind |-> "none", start |-> Zero, values |-> <<>>]}
    \cup {[kind |-> "tuple", start |-> s, values |-> v] :
              s \in StartTimes, v \in LogisticOverrides}
    \cup {[kind |-> "list", start |-> FromInt(1), values |-> v] :
              v \in {f \in LogisticOverrides : DOMAIN f = {"population"}}}

FinalTimes == {FromInt(k) : k \in (-2)..MaxFinal}

TimeSteps == {FromInt(1), FromInt(2), Frac(1, 2), FromInt(0), FromInt(-1)}


\* Values set_components is given; no zero total_population or recovery_time
\* (numpy's inf and nan are not modelled).
SIRValues(k) ==
    IF k = "contact_rate" THEN {FromInt(10), FromInt(2)}
    ELSE IF k = "infectivity" THEN {Frac(15, 1000), Frac(1, 2)}
    ELSE IF k = "recovery_time" THEN {FromInt(5), FromInt(1)}
    ELSE {FromInt(1000), FromInt(2), FromInt(4)}

SIRKeys == {"contact_rate", "infectivity", "recovery_time", "total_population"}

\* set_components is called with one key, or with all of them.
SIROverrides ==
    UNION {{f \in [D -> UNION {SIRValues(k) : k \in SIRKeys}] :
                \A k \in D : f[k] \in SIRValues(k)} :
           D \in {{k} : k \in SIRKeys} \cup {SIRKeys}}

StampValues == {FromInt(k) : k \in 0..MaxStamp}

\* return_timestamps: None, or a list of at most MaxPoints timestamps.
ReturnTimestamps ==
    {[given |-> FALSE, times |-> <<>>]}
    \cup {[given |-> TRUE, times |-> t] :
              t \in UNION {[1..k -> StampValues] : k \in 0..MaxPoints}}

\* The parameters run_scenario is called with.
ScenarioParams == LogisticOverrides

\* ------------------------------------------------------------------- state
VARIABLES
    program,     \* which script this process runs: "shared_model" or "sir_model"
    pc,          \* "idle", "returned" (a call has returned), "scenario"
    call,        \* the last call: [op, ...arguments]
    result,      \* what the last run returned or raised
    components,  \* ParallelSimulationModel: self.components._namespace
    sirParams,   \* sir_model.model.params
    scResults,   \* run_scenario: the local list `results`
    summary,     \* what run_scenario returned, <<>> before
    probe        \* history: the first probe call, what it returned, and
                 \* whether another run has been made since

vars ==
    <<program, pc, call, result, components, sirParams, scResults, summary, probe>>

NoCall == [op |-> "none"]

NoResult == [err |-> "none", traj |-> <<>>, clamped |-> FALSE]

NoProbe == [call |-> NoCall, result |-> NoResult, between |-> FALSE]

\* The calls whose first result the history variable keeps: one run of each
\* model.
ProbeCalls ==
    {[op |-> "ParallelSimulationModel.run",
      initial_condition |-> [kind |-> "tuple", start |-> Zero,
                             values |-> [growth_rate |-> One]],
      final_time |-> FromInt(2), time_step |-> One],
     [op |-> "SIRModel.run", return_timestamps |-> [given |-> FALSE, times |-> <<>>],
      initial_time |-> Zero, final_time |-> One, dt |-> One]}

\* The history after run call c has returned res: the first probe call is
\* kept with its result, and any later run is noted.
Probed(c, res) ==
    IF probe.call = NoCall
    THEN IF c \in ProbeCalls THEN [call |-> c, result |-> res, between |-> FALSE]
         ELSE probe
    ELSE IF c # probe.call THEN [probe EXCEPT !.between = TRUE] ELSE probe

Init ==
    /\ program \in {"shared_model", "sir_model"}
    /\ pc = "idle"
    /\ call = NoCall
    /\ result = NoResult
    /\ components = InitNamespace
    /\ sirParams = SIRDefaults
    /\ scResults = <<>>
    /\ summary = <<>>
    /\ probe = NoProbe

\* The grid of a call is within the model's bound.
GridWithin(start, final_time, time_step) ==
    IF time_step.n = 0 THEN TRUE
    ELSE ArangeLen(start, Add(final_time, time_step), time_step) <= MaxPoints

\* model.run(initial_condition, final_time, time_step) on a
\* ParallelSimulationModel.
RunLogistic(initial_condition, final_time, time_step) ==
    /\ program = "shared_model"
    /\ pc = "idle"
    /\ GridWithin(StartTimeOf(initial_condition), final_time, time_step)
    /\ LET res == ParallelSimulationModel_run(initial_condition, final_time, time_step)
           c == [op |-> "ParallelSimulationModel.run",
                 initial_condition |-> initial_condition,
                 final_time |-> final_time, time_step |-> time_step]
       IN /\ Representable(res)
          /\ result' = res
          /\ call' = c
          /\ probe' = Probed(c, res)
    /\ pc' = "returned"
    /\ UNCHANGED <<program, components, sirParams, scResults, summary>>

\* run_scenario(name, params, iterations) up to its loop: a new model and an
\* empty list of results.
ScenarioStart(params, iterations) ==
    /\ program = "shared_model"
    /\ pc = "idle"
    /\ GridWithin(Zero, FromInt(ScenarioFinalTime), DefaultTimeStep)
    /\ Representable(ParallelSimulationModel_run(ScenarioInitialCondition(params, 0),
                         FromInt(ScenarioFinalTime), DefaultTimeStep))
    /\ call' = [op |-> "run_scenario", params |-> params, iterations |-> iterations]
    /\ components' = InitNamespace
    /\ scResults' = <<>>
    /\ summary' = <<>>
    /\ result' = NoResult
    /\ pc' = "scenario"
    /\ UNCHANGED <<program, sirParams, probe>>

\* One iteration of run_scenario's loop: the run and the appended record.  An
\* exception of run leaves run_scenario.
ScenarioIter ==
    /\ pc = "scenario"
    /\ Len(scResults) < call.iterations
    /\ LET i == Len(scResults)
           res == ParallelSimulationModel_run(ScenarioInitialCondition(call.params, i),
                      FromInt(ScenarioFinalTime), DefaultTimeStep)
       IN /\ result' = res
          /\ IF res.err = "none"
             THEN /\ scResults' = Append(scResults, ScenarioRecord(i, res))
                  /\ pc' = "scenario"
             ELSE /\ scResults' = scResults
                  /\ pc' = "returned"
    /\ UNCHANGED <<program, call, components, sirParams, summary, probe>>

\* The loop is over: run_scenario builds and returns its summary.
ScenarioReturn ==
    /\ pc = "scenario"
    /\ Len(scResults) = call.iterations
    /\ LET sm == ScenarioSummary(call.params, call.iterations, scResults)
       IN /\ IsNum(sm.avg_final_population)
          /\ summary' = sm
    /\ pc' = "returned"
    /\ UNCHANGED <<program, call, result, components, sirParams, scResults, probe>>

\* model.set_components(params) on the module-level SIR instance.  The
\* history starts afresh: it compares runs with no set_components between.
SetComponents(params) ==
    /\ program = "sir_model"
    /\ pc = "idle"
    /\ sirParams' = set_components(sirParams, params)
    /\ call' = [op |-> "set_components", params |-> params]
    /\ result' = NoResult
    /\ probe' = NoProbe
    /\ pc' = "returned"
    /\ UNCHANGED <<program, components, scResults, summary>>

\* model.run(return_timestamps, initial_time, final_time, dt) on the
\* module-level SIR instance.
RunSIR(return_timestamps, initial_time, final_time, dt) ==
    /\ program = "sir_model"
    /\ pc = "idle"
    /\ IF return_timestamps.given THEN Len(return_timestamps.times) <= MaxPoints
       ELSE GridWithin(initial_time, final_time, dt)
    /\ LET res == SIRModel_run(sirParams, return_timestamps, initial_time, final_time, dt)
           c == [op |-> "SIRModel.run", return_timestamps |-> return_timestamps,
                 initial_time |-> initial_time, final_time |-> final_time, dt |-> dt]
       IN /\ Representable(res)
          /\ result' = res
          /\ call' = c
          /\ probe' = Probed(c, res)
    /\ pc' = "returned"
    /\ UNCHANGED <<program, components, sirParams, scResults, summary>>

\* The caller drops what the call returned.
Discard ==
    /\ pc = "returned"
    /\ pc' = "idle"
    /\ call' = NoCall
    /\ result' = NoResult
    /\ scResults' = <<>>
    /\ summary' = <<>>
    /\ UNCHANGED <<program, components, sirParams, probe>>

\* The calls a process makes when idle (the guards of the call actions, stated
\* once more ahead of the choice of the arguments).  final_time and
\* initial_time are not read when return_timestamps is given and are left at
\* 0 there.
CallRunLogistic ==
    /\ pc = "idle" /\ program = "shared_model"
    /\ \E ic \in InitialConditions, f \in FinalTimes, s \in TimeSteps :
           RunLogistic(ic, f, s)

CallRunScenario ==
    /\ pc = "idle" /\ program = "shared_model"
    /\ \E p \in ScenarioParams, n \in 1..MaxIterations : ScenarioStart(p, n)

CallSetComponents ==
    /\ pc = "idle" /\ program = "sir_model"
    /\ \E p \in SIROverrides : SetComponents(p)

CallRunSIR ==
    /\ pc = "idle" /\ program = "sir_model"
    /\ \E rt \in ReturnTimestamps, s \in TimeSteps :
           IF rt.given THEN RunSIR(rt, Zero, Zero, s)
           ELSE \E t0 \in StartTimes, f \in FinalTimes : RunSIR(rt, t0, f, s)

Next ==
    \/ CallRunLogistic
    \/ CallRunScenario
    \/ ScenarioIter
    \/ ScenarioReturn
    \/ CallSetComponents
    \/ CallRunSIR
    \/ Discard

Spec == Init /\ [][Next]_vars

\* ------------------------------------------------------- reading the state
\* A DataFrame of ParallelSimulationModel.run is at hand: returned to the
\* caller, or the local `result` of run_scenario's loop.
LogisticReturned ==
    /\ call.op \in {"ParallelSimulationModel.run", "run_scenario"}
    /\ result.err = "none"
    /\ (call.op = "run_scenario" => Len(scResults) > 0)

\* The arguments of the run that produced it.
LogisticIC ==
    IF call.op = "run_scenario" THEN ScenarioInitialCondition(call.params, 0)
    ELSE call.initial_condition

LogisticFinal ==
    IF call.op = "run_scenario" THEN FromInt(ScenarioFinalTime) ELSE call.final_time

LogisticStep ==
    IF call.op = "run_scenario" THEN DefaultTimeStep ELSE call.time_step

\* r and K as the run read them.
LogisticR == Get(InitialValuesOf(LogisticIC), "growth_rate", DefaultGrowthRate)

LogisticK == Get(InitialValuesOf(LogisticIC), "carrying_capacity", DefaultCarryingCapacity)

\* A call of ParallelSimulationModel.run has returned or raised.
LogisticCalled == call.op = "ParallelSimulationModel.run"

\* A call of SIRModel.run has returned or raised.
SIRCalled == call.op = "SIRModel.run"

SIRReturned == SIRCalled /\ result.err = "none"

IsNeg(x) == x.n < 0

IsPos(x) == x.n > 0

\* ------------------------------------------------------------------ claims

\* C1: in every trajectory returned by run, of the logistic model and of the
\* SIR model, every compartment value (Population; Susceptible, Infected,
\* Recovered) is >= 0 at every time point.  Stated for the calls no argument
\* of which is to blame: time_step > 0 and an initial Population >= 0.
C1_NonNegative ==
    /\ (LogisticReturned /\ IsPos(LogisticStep) /\ Len(result.traj) > 0
           /\ ~IsNeg(result.traj[1].Population)) =>
           \A i \in 1..Len(result.traj) : ~IsNeg(result.traj[i].Population)
    /\ (SIRReturned /\ IsPos(call.dt)) =>
           \A i \in 1..Len(result.traj) :
               /\ ~IsNeg(result.traj[i].Susceptible)
               /\ ~IsNeg(result.traj[i].Infected)
               /\ ~IsNeg(result.traj[i].Recovered)

\* The part of C1 the SIR loop does establish: every value the loop writes
\* (every record after the first) is >= 0.
C1_SIRLoopClamped ==
    SIRReturned =>
        \A i \in 2..Len(result.traj) :
            /\ ~IsNeg(result.traj[i].Susceptible)
            /\ ~IsNeg(result.traj[i].Infected)
            /\ ~IsNeg(result.traj[i].Recovered)

\* The arguments of the last run call are invalid: time_step <= 0 or
\* final_time < start_time.
InvalidArguments ==
    \/ /\ LogisticCalled
       /\ \/ ~IsPos(call.time_step)
          \/ Less(call.final_time, StartTimeOf(call.initial_condition))
    \/ /\ SIRCalled
       /\ \/ ~IsPos(call.dt)
          \/ ~call.return_timestamps.given /\ Less(call.final_time, call.initial_time)

\* C2: a call to run with time_step <= 0 or final_time < start_time fails and
\* returns no trajectory at all, neither an empty nor a partial one (any
\* exception is taken for the InvalidParameter error of the claim).
C2_InvalidRejected == InvalidArguments => result.err # "none"

\* The last run call built its grid from (start, final_time, step) with
\* time_step > 0 and final_time >= start_time.
ValidGenerated ==
    \/ /\ LogisticCalled
       /\ IsPos(call.time_step)
       /\ Leq(StartTimeOf(call.initial_condition), call.final_time)
    \/ /\ SIRCalled
       /\ ~call.return_timestamps.given
       /\ IsPos(call.dt)
       /\ Leq(call.initial_time, call.final_time)

GenStart == IF LogisticCalled THEN StartTimeOf(call.initial_condition) ELSE call.initial_time

GenStep == IF LogisticCalled THEN call.time_step ELSE call.dt

\* (final_time - start_time) / time_step of the last call.
GenSpan == Div(Sub(call.final_time, GenStart), GenStep)

C4_Conservation ==
    (SIRReturned /\ ~result.clamped) =>
        \A i \in 1..Len(result.traj) :
            Add(Add(result.traj[i].Susceptible, result.traj[i].Infected),
                result.traj[i].Recovered) = sirParams.total_population

\* Witness of C4: a run over a supplied grid of three timestamps has returned,
\* no clamp has fired and the epidemic has moved at each step.
C4_Witness ==
    /\ SIRReturned
    /\ call.return_timestamps.given
    /\ ~result.clamped
    /\ Len(result.traj) = 3
    /\ result.traj[2].Infected # result.traj[1].Infected
    /\ result.traj[3].Infected # result.traj[2].Infected
    /\ IsPos(result.traj[3].Recovered)

C5_WitnessAbove ==
    /\ LogisticReturned
    /\ IsPos(LogisticStep)
    /\ IsPos(LogisticR)
    /\ IsPos(LogisticK)
    /\ Len(result.traj) >= 2
    /\ Less(LogisticK, result.traj[1].Population)
    /\ Less(result.traj[2].Population, result.traj[1].Population)

C6_ProbeRepeated ==
    /\ probe.call # NoCall
    /\ probe.between
    /\ call = probe.call
    /\ SIRReturned
    /\ sirParams # SIRDefaults
    /\ Len(result.traj) = 2

TimesNonDecreasing ==
    \A i \in 1..(Len(result.traj) - 1) :
        Leq(result.traj[i].Time, result.traj[i + 1].Time)

\* C8: the first record of every returned trajectory holds the initial
\* condition: for ParallelSimulationModel.run the supplied 'population'
\* override, or 1000 when none is given; for SIRModel.run Susceptible =
\* total_population - 1, Infected = 1, Recovered = 0, and the grid's time
\* values are non-decreasing.  Stated for the calls with a time step > 0.
C8_InitialCondition ==
    /\ (LogisticCalled /\ result.err = "none" /\ Len(result.traj) > 0
           /\ IsPos(call.time_step)) =>
           result.traj[1].Population =
               Get(call.initial_condition.values, "population", FromInt(1000))
    /\ (SIRReturned /\ IsPos(call.dt)) =>
           /\ result.traj[1].Susceptible = Sub(sirParams.total_population, One)
           /\ result.traj[1].Infected = One
           /\ result.traj[1].Recovered = Zero
           /\ TimesNonDecreasing

\* The part of C8 that holds: the first record of a logistic run given a
\* tuple or nothing, and the first record of every SIR run.
C8_FirstRecord ==
    /\ (LogisticCalled /\ result.err = "none" /\ Len(result.traj) > 0
           /\ call.initial_condition.kind # "list") =>
           result.traj[1].Population =
               Get(call.initial_condition.values, "population", FromInt(1000))
    /\ SIRReturned =>
           /\ result.traj[1].Susceptible = Sub(sirParams.total_population, One)
           /\ result.traj[1].Infected = One
           /\ result.traj[1].Recovered = Zero

\* Timestamp t lies on the grid initial_time, initial_time + dt, ... (dt > 0).
OnGrid(t) ==
    /\ IsPos(call.dt)
    /\ Leq(call.initial_time, t)
    /\ Div(Sub(t, call.initial_time), call.dt).d = 1

\* The run without return_timestamps, with the same parameters, initial_time
\* and dt, up to time t.
ReferenceRun(t) ==
    SIRModel_run(sirParams, [given |-> FALSE, times |-> <<>>], call.initial_time, t,
                 call.dt)

\* C9: when SIRModel.run is given return_timestamps, the record returned for
\* a timestamp t on the grid equals the record the run without
\* return_timestamps has at time t.
C9_TimestampsHonoured ==
    (SIRReturned /\ call.return_timestamps.given) =>
        \A j \in 1..Len(result.traj) :
            LET t == result.traj[j].Time
            IN (OnGrid(t) /\ Representable(ReferenceRun(t))) =>
                   \E i \in 1..Len(ReferenceRun(t).traj) :
                       ReferenceRun(t).traj[i] = result.traj[j]

\* What the code does with return_timestamps: record j is the state after
\* j - 1 steps of dt, whatever the timestamps are.
C9_IndexedByPosition ==
    (SIRReturned /\ call.return_timestamps.given) =>
        \A j \in 1..Len(result.traj) :
            LET ref == ReferenceRun(Add(call.initial_time,
                                        Mul(FromInt(j - 1), call.dt)))
            IN (IsPos(call.dt) /\ Representable(ref)) =>
                   /\ result.traj[j].Susceptible = ref.traj[j].Susceptible
                   /\ result.traj[j].Infected = ref.traj[j].Infected
                   /\ result.traj[j].Recovered = ref.traj[j].Recovered

\* C10: in every logistic trajectory GrowthRate[i] = r * Population[i] *
\* (1 - Population[i]/K) at every index including the last, Population[i+1] =
\* Population[i] + GrowthRate[i] * time_step for every index before the last,
\* and CarryingCapacity is K in every record.
C10_DerivedFromSameRecord ==
    LogisticReturned =>
        /\ \A i \in 1..Len(result.traj) :
               LET P == result.traj[i].Population
               IN /\ result.traj[i].GrowthRate =
                         Mul(Mul(LogisticR, P), Sub(One, Div(P, LogisticK)))
                  /\ result.traj[i].CarryingCapacity = LogisticK
        /\ \A i \in 1..(Len(result.traj) - 1) :
               result.traj[i + 1].Population =
                   Add(result.traj[i].Population,
                       Mul(result.traj[i].GrowthRate, LogisticStep))

\* Witness of C10: a three-point trajectory with a growth rate and a step
\* other than 1, whose growth rate is not zero at the last index.
C10_Witness ==
    /\ LogisticReturned
    /\ Len(result.traj) = 3
    /\ LogisticR # One
    /\ LogisticStep # One
    /\ IsPos(LogisticStep)
    /\ result.traj[3].GrowthRate # Zero
    /\ result.traj[3].GrowthRate # result.traj[2].GrowthRate

=============================================================================
